---- MODULE Spec2Model ----
(***************************************************************************)
(* One invocation of package serverctx: Run / RunTLS (src/serverctx.go and *)
(* src/unnamed/part_000) and Serve / ServeTLS (src/unnamed/part_000).      *)
(*                                                                         *)
(* Two threads: the caller's goroutine executing RunTLS / ServeTLS (pc)    *)
(* and the goroutine started by the `go func()` statement (gpc).  They     *)
(* communicate through the channel serverErr and the context ctx.  The     *)
(* *http.Server s is a collaborator: its accept call and its Shutdown are  *)
(* modelled by what net/http documents them to return.                     *)
(*                                                                         *)
(* src/serverctx.go and src/unnamed/part_000 hold the same text for Run    *)
(* and RunTLS except for the `make` of serverErr (unbuffered in            *)
(* src/serverctx.go, capacity 1 in part_000); the variable src says which  *)
(* file is compiled and only the make step differs.                        *)
(*                                                                         *)
(* SeveralSpec runs several invocations side by side over one heap of      *)
(* channels (heap, calls), to state what is private to an invocation.      *)
(***************************************************************************)
EXTENDS Naturals, Sequences, FiniteSets, TLC

\* ---- bounds ------------------------------------------------------------
\* Largest shutdown timeout (in clock ticks) an invocation is given.
MaxTimeout == 2
\* Number of invocations modelled side by side.
NumInvocations == 2

\* ---- values ------------------------------------------------------------
Nil == "nil"
ErrServerClosed == "http: Server closed"
DeadlineExceeded == "context deadline exceeded"
\* Errors an accept call returns when it stops by itself.
AddrInUse == "listen: address already in use"
Failures == {AddrInUse, "accept: runtime error"}
\* Marks a result that does not exist yet (bookkeeping, not a Go value).
None == "none"
\* Marks a parameter that has not been bound yet.
Unset == "<unset>"

CertFiles == {"", "cert.pem"}
KeyFiles == {"", "key.pem"}
Listeners == {"l1", "l2"}
\* The listener of an accept call that binds its own (ListenAndServe*).
OwnBind == "own"
\* Run and RunTLS take no listener.
NoListener == "-"

SrcOld == "src/serverctx.go"
SrcNew == "src/unnamed/part_000"

\* make(chan error): capacity of the channel in src/serverctx.go.
UnbufferedCap == 0
\* make(chan error, 1): capacity of the channel in src/unnamed/part_000.
BufferedCap == 1

VARIABLES
  src,          \* which source file is compiled
  entry,        \* the exported function the caller invokes
  fn,           \* the function whose body runs: "", "RunTLS" or "ServeTLS"
  ctxDone,      \* ctx.Done() is closed
  l,            \* parameter l (Serve, ServeTLS)
  timeout,      \* parameter timeout
  certFile,     \* parameter certFile of RunTLS / ServeTLS
  keyFile,      \* parameter keyFile of RunTLS / ServeTLS
  pc,           \* position of the caller's goroutine
  err,          \* local variable err
  ret,          \* the value returned to the caller, None before the return
  serverErr,    \* the channel: [made, cap, buf]
  gpc,          \* position of the goroutine started by `go func()`
  gval,         \* the value the accept call returned to the goroutine
  stopCtx,      \* the context made by context.WithTimeout: [state, parent, d]
  srvShutdown,  \* s is shutting down (Shutdown has been called on it)
  elapsed,      \* clock ticks since Shutdown was called
  stopRet,      \* the value Shutdown returned, None before
  acceptLog,    \* history: the accept calls made on s
  shutdownLog,  \* history: the Shutdown calls made on s, each with its context
  branch,       \* history: the select case taken: "none", "ctx" or "err"
  availAtSelect,\* history: a value could be received from serverErr at select
  firedAtCall,  \* history: ctx was already done at invocation
  firedAtAcceptRet, \* history: ctx done when the accept call returned
  returns,      \* history: number of returns to the caller
  heap,         \* several invocations: the channels made so far
  calls         \* several invocations: the state of each invocation

\* The state of the single invocation, and of several invocations side by side.
single == <<src, entry, fn, ctxDone, l, timeout, certFile, keyFile, pc, err,
            ret, serverErr, gpc, gval, stopCtx, srvShutdown, elapsed, stopRet,
            acceptLog, shutdownLog, branch, availAtSelect, firedAtCall,
            firedAtAcceptRet, returns>>
several == <<heap, calls>>

vars == <<single, several>>

\* What the caller's goroutine and the select read and write.
raceVars == <<pc, err, ret, serverErr, stopCtx, branch, returns, shutdownLog>>

NoChan == [made |-> FALSE, cap |-> UnbufferedCap, buf |-> <<>>]
NoCtx == [state |-> "none", parent |-> "", d |-> 0]

Entries == {"Run", "RunTLS", "Serve", "ServeTLS"}
IsWrapper(e) == e \in {"Run", "Serve"}
\* Serve and ServeTLS exist in part_000 only.
InFile(f, e) == f = SrcNew \/ e \in {"Run", "RunTLS"}

Init ==
  /\ src \in {SrcOld, SrcNew}
  /\ entry \in Entries
  /\ InFile(src, entry)
  /\ fn = IF IsWrapper(entry) THEN "" ELSE entry
  /\ ctxDone \in BOOLEAN
  /\ firedAtCall = ctxDone
  /\ l \in IF entry \in {"Serve", "ServeTLS"} THEN Listeners ELSE {NoListener}
  /\ timeout \in 0..MaxTimeout
  /\ certFile \in IF IsWrapper(entry) THEN {Unset} ELSE CertFiles
  /\ keyFile \in IF IsWrapper(entry) THEN {Unset} ELSE KeyFiles
  /\ pc = IF IsWrapper(entry) THEN "call" ELSE "make"
  /\ err = Nil
  /\ ret = None
  /\ serverErr = NoChan
  /\ gpc = "none"
  /\ gval = None
  /\ stopCtx = NoCtx
  /\ srvShutdown \in BOOLEAN
  /\ elapsed = 0
  /\ stopRet = None
  /\ acceptLog = <<>>
  /\ shutdownLog = <<>>
  /\ branch = "none"
  /\ availAtSelect = FALSE
  /\ firedAtAcceptRet = FALSE
  /\ returns = 0
  /\ heap = <<>>
  /\ calls = <<>>

\* The arguments of the invocation and what was true when it began.
args == <<src, entry, l, timeout, firedAtCall>>

\* ---- the callers of the invocation --------------------------------------
\* The owner of ctx cancels it.
Cancel ==
  /\ ~ctxDone
  /\ ctxDone' = TRUE
  /\ UNCHANGED <<src, entry, fn, l, timeout, certFile, keyFile, pc, err, ret,
                 serverErr, gpc, gval, stopCtx, srvShutdown, elapsed, stopRet,
                 acceptLog, shutdownLog, branch, availAtSelect, firedAtCall,
                 firedAtAcceptRet, returns>>
  /\ UNCHANGED several

\* ---- Run, Serve: the wrappers -------------------------------------------
\* return RunTLS(ctx, s, timeout, "", "")
Run ==
  /\ pc = "call" /\ entry = "Run"
  /\ fn' = "RunTLS"
  /\ certFile' = ""
  /\ keyFile' = ""
  /\ pc' = "make"
  /\ UNCHANGED <<src, entry, ctxDone, l, timeout, err, ret, serverErr, gpc,
                 gval, stopCtx, srvShutdown, elapsed, stopRet, acceptLog,
                 shutdownLog, branch, availAtSelect, firedAtCall,
                 firedAtAcceptRet, returns>>
  /\ UNCHANGED several

\* return ServeTLS(ctx, l, s, timeout, "", "")
Serve ==
  /\ pc = "call" /\ entry = "Serve"
  /\ fn' = "ServeTLS"
  /\ certFile' = ""
  /\ keyFile' = ""
  /\ pc' = "make"
  /\ UNCHANGED <<src, entry, ctxDone, l, timeout, err, ret, serverErr, gpc,
                 gval, stopCtx, srvShutdown, elapsed, stopRet, acceptLog,
                 shutdownLog, branch, availAtSelect, firedAtCall,
                 firedAtAcceptRet, returns>>
  /\ UNCHANGED several

\* ---- the channel serverErr ----------------------------------------------
\* A receive from c can proceed: a buffered value, or (unbuffered) a sender
\* blocked in its send.
CanRecv(c, sender) ==
  /\ c.made
  /\ \/ Len(c.buf) > 0
     \/ c.cap = 0 /\ sender = "send"

\* A send on c can proceed without a receiver: room in the buffer.
CanSend(c) == c.made /\ Len(c.buf) < c.cap

\* ---- RunTLS --------------------------------------------------------------
\* src/serverctx.go: serverErr := make(chan error)
RunTLS_make0 ==
  /\ pc = "make" /\ src = SrcOld
  /\ serverErr' = [made |-> TRUE, cap |-> UnbufferedCap, buf |-> <<>>]
  /\ pc' = "go"
  /\ UNCHANGED <<args, fn, ctxDone, certFile, keyFile, err, ret, gpc, gval,
                 stopCtx, srvShutdown, elapsed, stopRet, acceptLog,
                 shutdownLog, branch, availAtSelect, firedAtAcceptRet, returns>>
  /\ UNCHANGED several

\* part_000: serverErr := make(chan error, 1)
RunTLS_make ==
  /\ pc = "make" /\ src = SrcNew
  /\ serverErr' = [made |-> TRUE, cap |-> BufferedCap, buf |-> <<>>]
  /\ pc' = "go"
  /\ UNCHANGED <<args, fn, ctxDone, certFile, keyFile, err, ret, gpc, gval,
                 stopCtx, srvShutdown, elapsed, stopRet, acceptLog,
                 shutdownLog, branch, availAtSelect, firedAtAcceptRet, returns>>
  /\ UNCHANGED several

\* A faulty variant of RunTLS_go: the function literal is not started with
\* `go` before the select.
M12_RunTLS_go ==
  /\ pc = "go"
  /\ gpc' = gpc
  /\ err' = Nil
  /\ pc' = "select"
  /\ UNCHANGED <<args, fn, ctxDone, certFile, keyFile, ret, serverErr, gval,
                 stopCtx, srvShutdown, elapsed, stopRet, acceptLog,
                 shutdownLog, branch, availAtSelect, firedAtAcceptRet, returns>>
  /\ UNCHANGED several

\* go func() { ... }() ; var err error
RunTLS_go ==
  /\ pc = "go"
  /\ gpc' = "spawned"
  /\ err' = Nil
  /\ pc' = "select"
  /\ UNCHANGED <<args, fn, ctxDone, certFile, keyFile, ret, serverErr, gval,
                 stopCtx, srvShutdown, elapsed, stopRet, acceptLog,
                 shutdownLog, branch, availAtSelect, firedAtAcceptRet, returns>>
  /\ UNCHANGED several

\* A faulty variant of RunTLS_accept: `||` in place of `&&`, so that one
\* non-empty file name selects the TLS call.
M8_RunTLS_accept ==
  /\ gpc = "spawned"
  /\ acceptLog' = Append(acceptLog,
       IF certFile # "" \/ keyFile # ""
       THEN [method |-> "ListenAndServeTLS", ln |-> OwnBind,
             cert |-> certFile, key |-> keyFile]
       ELSE [method |-> "ListenAndServe", ln |-> OwnBind,
             cert |-> "", key |-> ""])
  /\ gpc' = "accepting"
  /\ UNCHANGED <<args, fn, ctxDone, certFile, keyFile, pc, err, ret, serverErr,
                 gval, stopCtx, srvShutdown, elapsed, stopRet, shutdownLog,
                 branch, availAtSelect, firedAtAcceptRet, returns>>
  /\ UNCHANGED several

\* The goroutine: if certFile != "" && keyFile != "" { s.ListenAndServeTLS(
\* certFile, keyFile) } else { s.ListenAndServe() }: the call is made.
RunTLS_accept ==
  /\ gpc = "spawned"
  /\ acceptLog' = Append(acceptLog,
       IF certFile # "" /\ keyFile # ""
       THEN [method |-> "ListenAndServeTLS", ln |-> OwnBind,
             cert |-> certFile, key |-> keyFile]
       ELSE [method |-> "ListenAndServe", ln |-> OwnBind,
             cert |-> "", key |-> ""])
  /\ gpc' = "accepting"
  /\ UNCHANGED <<args, fn, ctxDone, certFile, keyFile, pc, err, ret, serverErr,
                 gval, stopCtx, srvShutdown, elapsed, stopRet, shutdownLog,
                 branch, availAtSelect, firedAtAcceptRet, returns>>
  /\ UNCHANGED several

\* A faulty variant of RunTLS_send: the goroutine goes back to the accept
\* call after its send (a retry loop).
M16_RunTLS_send ==
  /\ gpc = "send"
  /\ CanSend(serverErr)
  /\ serverErr' = [serverErr EXCEPT !.buf = Append(@, gval)]
  /\ gpc' = "spawned"
  /\ UNCHANGED <<args, fn, ctxDone, certFile, keyFile, pc, err, ret, gval,
                 stopCtx, srvShutdown, elapsed, stopRet, acceptLog,
                 shutdownLog, branch, availAtSelect, firedAtAcceptRet, returns>>
  /\ UNCHANGED several

\* The goroutine: serverErr <- (the accept call's result), into the buffer.
\* On an unbuffered channel the send completes only in RunTLS_selectErr.
RunTLS_send ==
  /\ gpc = "send"
  /\ CanSend(serverErr)
  /\ serverErr' = [serverErr EXCEPT !.buf = Append(@, gval)]
  /\ gpc' = "exit"
  /\ UNCHANGED <<args, fn, ctxDone, certFile, keyFile, pc, err, ret, gval,
                 stopCtx, srvShutdown, elapsed, stopRet, acceptLog,
                 shutdownLog, branch, availAtSelect, firedAtAcceptRet, returns>>
  /\ UNCHANGED several

\* A faulty variant of RunTLS_selectDone: a wait that only sees ctx become
\* done after the invocation began, and misses a ctx that was done already.
M3_RunTLS_selectDone ==
  /\ pc = "select"
  /\ ctxDone /\ ~firedAtCall
  /\ stopCtx' = [state |-> "live", parent |-> "Background", d |-> timeout]
  /\ shutdownLog' = Append(shutdownLog, stopCtx')
  /\ srvShutdown' = TRUE
  /\ elapsed' = 0
  /\ branch' = "ctx"
  /\ availAtSelect' = CanRecv(serverErr, gpc)
  /\ pc' = "shutdown"
  /\ UNCHANGED <<args, fn, ctxDone, certFile, keyFile, err, ret, serverErr,
                 gpc, gval, stopRet, acceptLog, firedAtAcceptRet, returns>>
  /\ UNCHANGED several

\* A faulty variant of RunTLS_selectDone: context.WithTimeout(ctx, timeout),
\* a child of the ctx that is already done.
M14_RunTLS_selectDone ==
  /\ pc = "select"
  /\ ctxDone
  /\ stopCtx' = [state |-> "live", parent |-> "ctx", d |-> timeout]
  /\ shutdownLog' = Append(shutdownLog, stopCtx')
  /\ srvShutdown' = TRUE
  /\ elapsed' = 0
  /\ branch' = "ctx"
  /\ availAtSelect' = CanRecv(serverErr, gpc)
  /\ pc' = "shutdown"
  /\ UNCHANGED <<args, fn, ctxDone, certFile, keyFile, err, ret, serverErr,
                 gpc, gval, stopRet, acceptLog, firedAtAcceptRet, returns>>
  /\ UNCHANGED several

\* A faulty variant of RunTLS_selectDone: a select that does not wait for
\* ctx to be done.
M18_RunTLS_selectDone ==
  /\ pc = "select"
  /\ stopCtx' = [state |-> "live", parent |-> "Background", d |-> timeout]
  /\ shutdownLog' = Append(shutdownLog, stopCtx')
  /\ srvShutdown' = TRUE
  /\ elapsed' = 0
  /\ branch' = "ctx"
  /\ availAtSelect' = CanRecv(serverErr, gpc)
  /\ pc' = "shutdown"
  /\ UNCHANGED <<args, fn, ctxDone, certFile, keyFile, err, ret, serverErr,
                 gpc, gval, stopRet, acceptLog, firedAtAcceptRet, returns>>
  /\ UNCHANGED several

\* select { case <-ctx.Done(): ctx, cancel := context.WithTimeout(
\* context.Background(), timeout); defer cancel(); s.Shutdown(ctx) is called.
RunTLS_selectDone ==
  /\ pc = "select"
  /\ ctxDone
  /\ stopCtx' = [state |-> "live", parent |-> "Background", d |-> timeout]
  /\ shutdownLog' = Append(shutdownLog, stopCtx')
  /\ srvShutdown' = TRUE
  /\ elapsed' = 0
  /\ branch' = "ctx"
  /\ availAtSelect' = CanRecv(serverErr, gpc)
  /\ pc' = "shutdown"
  /\ UNCHANGED <<args, fn, ctxDone, certFile, keyFile, err, ret, serverErr,
                 gpc, gval, stopRet, acceptLog, firedAtAcceptRet, returns>>
  /\ UNCHANGED several

\* A faulty variant of RunTLS_selectErr: the server is shut down on this
\* path as well.
M4_RunTLS_selectErr ==
  /\ pc = "select"
  /\ CanRecv(serverErr, gpc)
  /\ IF Len(serverErr.buf) > 0
     THEN /\ err' = Head(serverErr.buf)
          /\ serverErr' = [serverErr EXCEPT !.buf = Tail(@)]
          /\ gpc' = gpc
     ELSE /\ err' = gval
          /\ serverErr' = serverErr
          /\ gpc' = "exit"
  /\ shutdownLog' = Append(shutdownLog,
       [state |-> "live", parent |-> "Background", d |-> timeout])
  /\ srvShutdown' = TRUE
  /\ branch' = "err"
  /\ availAtSelect' = TRUE
  /\ pc' = "return"
  /\ UNCHANGED <<args, fn, ctxDone, certFile, keyFile, ret, gval, stopCtx,
                 elapsed, stopRet, acceptLog, firedAtAcceptRet, returns>>
  /\ UNCHANGED several

\* A faulty variant of RunTLS_selectErr: http.ErrServerClosed is taken for a
\* clean stop and reported as nil.
M6_RunTLS_selectErr ==
  /\ pc = "select"
  /\ CanRecv(serverErr, gpc)
  /\ LET v == IF Len(serverErr.buf) > 0 THEN Head(serverErr.buf) ELSE gval
     IN  err' = IF v = ErrServerClosed THEN Nil ELSE v
  /\ IF Len(serverErr.buf) > 0
     THEN /\ serverErr' = [serverErr EXCEPT !.buf = Tail(@)]
          /\ gpc' = gpc
     ELSE /\ serverErr' = serverErr
          /\ gpc' = "exit"
  /\ branch' = "err"
  /\ availAtSelect' = TRUE
  /\ pc' = "return"
  /\ UNCHANGED <<args, fn, ctxDone, certFile, keyFile, ret, gval, stopCtx,
                 srvShutdown, elapsed, stopRet, acceptLog, shutdownLog,
                 firedAtAcceptRet, returns>>
  /\ UNCHANGED several

\* select { case err = <-serverErr: }
RunTLS_selectErr ==
  /\ pc = "select"
  /\ CanRecv(serverErr, gpc)
  /\ IF Len(serverErr.buf) > 0
     THEN /\ err' = Head(serverErr.buf)
          /\ serverErr' = [serverErr EXCEPT !.buf = Tail(@)]
          /\ gpc' = gpc
     ELSE /\ err' = gval
          /\ serverErr' = serverErr
          /\ gpc' = "exit"
  /\ branch' = "err"
  /\ availAtSelect' = TRUE
  /\ pc' = "return"
  /\ UNCHANGED <<args, fn, ctxDone, certFile, keyFile, ret, gval, stopCtx,
                 srvShutdown, elapsed, stopRet, acceptLog, shutdownLog,
                 firedAtAcceptRet, returns>>
  /\ UNCHANGED several

\* A faulty variant of RunTLS_shutdownRet: the accept call's result, when
\* there is one, replaces Shutdown's.
M2_RunTLS_shutdownRet ==
  /\ pc = "shutdown"
  /\ stopRet # None
  /\ err' = IF gval # None THEN gval ELSE stopRet
  /\ pc' = "return"
  /\ UNCHANGED <<args, fn, ctxDone, certFile, keyFile, ret, serverErr, gpc,
                 gval, stopCtx, srvShutdown, elapsed, stopRet, acceptLog,
                 shutdownLog, branch, availAtSelect, firedAtAcceptRet, returns>>
  /\ UNCHANGED several

\* A faulty variant of RunTLS_shutdownRet: after Shutdown the runner also
\* waits for the accept call to end.
M5_RunTLS_shutdownRet ==
  /\ pc = "shutdown"
  /\ stopRet # None
  /\ gpc \in {"send", "exit"}
  /\ err' = stopRet
  /\ pc' = "return"
  /\ UNCHANGED <<args, fn, ctxDone, certFile, keyFile, ret, serverErr, gpc,
                 gval, stopCtx, srvShutdown, elapsed, stopRet, acceptLog,
                 shutdownLog, branch, availAtSelect, firedAtAcceptRet, returns>>
  /\ UNCHANGED several

\* err = s.Shutdown(ctx): Shutdown has returned.
RunTLS_shutdownRet ==
  /\ pc = "shutdown"
  /\ stopRet # None
  /\ err' = stopRet
  /\ pc' = "return"
  /\ UNCHANGED <<args, fn, ctxDone, certFile, keyFile, ret, serverErr, gpc,
                 gval, stopCtx, srvShutdown, elapsed, stopRet, acceptLog,
                 shutdownLog, branch, availAtSelect, firedAtAcceptRet, returns>>
  /\ UNCHANGED several

\* A faulty variant of RunTLS_return: no `defer cancel()`.
M15_RunTLS_return ==
  /\ pc = "return"
  /\ ret' = err
  /\ stopCtx' = stopCtx
  /\ returns' = returns + 1
  /\ pc' = "done"
  /\ UNCHANGED <<args, fn, ctxDone, certFile, keyFile, err, serverErr, gpc,
                 gval, srvShutdown, elapsed, stopRet, acceptLog, shutdownLog,
                 branch, availAtSelect, firedAtAcceptRet>>
  /\ UNCHANGED several

\* A faulty variant of RunTLS_return: the server is closed on every return
\* (a deferred s.Close()).
M13_RunTLS_return ==
  /\ pc = "return"
  /\ ret' = err
  /\ stopCtx' = IF stopCtx.state = "live"
                THEN [stopCtx EXCEPT !.state = "released"] ELSE stopCtx
  /\ srvShutdown' = TRUE
  /\ returns' = returns + 1
  /\ pc' = "done"
  /\ UNCHANGED <<args, fn, ctxDone, certFile, keyFile, err, serverErr, gpc,
                 gval, elapsed, stopRet, acceptLog, shutdownLog,
                 branch, availAtSelect, firedAtAcceptRet>>
  /\ UNCHANGED several

\* return err, running the deferred cancel().
RunTLS_return ==
  /\ pc = "return"
  /\ ret' = err
  /\ stopCtx' = IF stopCtx.state = "live"
                THEN [stopCtx EXCEPT !.state = "released"] ELSE stopCtx
  /\ returns' = returns + 1
  /\ pc' = "done"
  /\ UNCHANGED <<args, fn, ctxDone, certFile, keyFile, err, serverErr, gpc,
                 gval, srvShutdown, elapsed, stopRet, acceptLog, shutdownLog,
                 branch, availAtSelect, firedAtAcceptRet>>
  /\ UNCHANGED several

\* The steps of RunTLS's own goroutine, and of the goroutine it starts.
RunTLS_runner ==
  \/ RunTLS_make0
  \/ RunTLS_make
  \/ RunTLS_go
  \/ RunTLS_selectDone
  \/ RunTLS_selectErr
  \/ RunTLS_shutdownRet
  \/ RunTLS_return

RunTLS_goroutine ==
  \/ RunTLS_accept
  \/ RunTLS_send

\* The body of RunTLS and of its goroutine run when RunTLS is the function called.
RunTLS ==
  \/ fn = "RunTLS" /\ RunTLS_make0
  \/ fn = "RunTLS" /\ RunTLS_make
  \/ fn = "RunTLS" /\ RunTLS_go
  \/ fn = "RunTLS" /\ RunTLS_accept
  \/ fn = "RunTLS" /\ RunTLS_send
  \/ fn = "RunTLS" /\ RunTLS_selectDone
  \/ fn = "RunTLS" /\ RunTLS_selectErr
  \/ fn = "RunTLS" /\ RunTLS_shutdownRet
  \/ fn = "RunTLS" /\ RunTLS_return

\* ---- ServeTLS (part_000) -------------------------------------------------
\* serverErr := make(chan error, 1)
ServeTLS_make ==
  /\ pc = "make"
  /\ serverErr' = [made |-> TRUE, cap |-> BufferedCap, buf |-> <<>>]
  /\ pc' = "go"
  /\ UNCHANGED <<args, fn, ctxDone, certFile, keyFile, err, ret, gpc, gval,
                 stopCtx, srvShutdown, elapsed, stopRet, acceptLog,
                 shutdownLog, branch, availAtSelect, firedAtAcceptRet, returns>>
  /\ UNCHANGED several

\* go func() { ... }() ; var err error
ServeTLS_go ==
  /\ pc = "go"
  /\ gpc' = "spawned"
  /\ err' = Nil
  /\ pc' = "select"
  /\ UNCHANGED <<args, fn, ctxDone, certFile, keyFile, ret, serverErr, gval,
                 stopCtx, srvShutdown, elapsed, stopRet, acceptLog,
                 shutdownLog, branch, availAtSelect, firedAtAcceptRet, returns>>
  /\ UNCHANGED several

\* A faulty variant of ServeTLS_accept: the calls of RunTLS, which bind a
\* listener of their own and leave l unused.
M9_ServeTLS_accept ==
  /\ gpc = "spawned"
  /\ acceptLog' = Append(acceptLog,
       IF certFile # "" /\ keyFile # ""
       THEN [method |-> "ListenAndServeTLS", ln |-> OwnBind,
             cert |-> certFile, key |-> keyFile]
       ELSE [method |-> "ListenAndServe", ln |-> OwnBind,
             cert |-> "", key |-> ""])
  /\ gpc' = "accepting"
  /\ UNCHANGED <<args, fn, ctxDone, certFile, keyFile, pc, err, ret, serverErr,
                 gval, stopCtx, srvShutdown, elapsed, stopRet, shutdownLog,
                 branch, availAtSelect, firedAtAcceptRet, returns>>
  /\ UNCHANGED several

\* The goroutine: if certFile != "" && keyFile != "" { s.ServeTLS(l,
\* certFile, keyFile) } else { s.Serve(l) }: the call is made.
ServeTLS_accept ==
  /\ gpc = "spawned"
  /\ acceptLog' = Append(acceptLog,
       IF certFile # "" /\ keyFile # ""
       THEN [method |-> "ServeTLS", ln |-> l,
             cert |-> certFile, key |-> keyFile]
       ELSE [method |-> "Serve", ln |-> l,
             cert |-> "", key |-> ""])
  /\ gpc' = "accepting"
  /\ UNCHANGED <<args, fn, ctxDone, certFile, keyFile, pc, err, ret, serverErr,
                 gval, stopCtx, srvShutdown, elapsed, stopRet, shutdownLog,
                 branch, availAtSelect, firedAtAcceptRet, returns>>
  /\ UNCHANGED several

\* The goroutine: serverErr <- (the accept call's result), into the buffer.
\* ServeTLS_selectErr receives it.
ServeTLS_send ==
  /\ gpc = "send"
  /\ CanSend(serverErr)
  /\ serverErr' = [serverErr EXCEPT !.buf = Append(@, gval)]
  /\ gpc' = "exit"
  /\ UNCHANGED <<args, fn, ctxDone, certFile, keyFile, pc, err, ret, gval,
                 stopCtx, srvShutdown, elapsed, stopRet, acceptLog,
                 shutdownLog, branch, availAtSelect, firedAtAcceptRet, returns>>
  /\ UNCHANGED several

\* select { case <-ctx.Done(): ctx, cancel := context.WithTimeout(
\* context.Background(), timeout); defer cancel(); s.Shutdown(ctx) is called.
ServeTLS_selectDone ==
  /\ pc = "select"
  /\ ctxDone
  /\ stopCtx' = [state |-> "live", parent |-> "Background", d |-> timeout]
  /\ shutdownLog' = Append(shutdownLog, stopCtx')
  /\ srvShutdown' = TRUE
  /\ elapsed' = 0
  /\ branch' = "ctx"
  /\ availAtSelect' = CanRecv(serverErr, gpc)
  /\ pc' = "shutdown"
  /\ UNCHANGED <<args, fn, ctxDone, certFile, keyFile, err, ret, serverErr,
                 gpc, gval, stopRet, acceptLog, firedAtAcceptRet, returns>>
  /\ UNCHANGED several

\* select { case err = <-serverErr: }
ServeTLS_selectErr ==
  /\ pc = "select"
  /\ CanRecv(serverErr, gpc)
  /\ IF Len(serverErr.buf) > 0
     THEN /\ err' = Head(serverErr.buf)
          /\ serverErr' = [serverErr EXCEPT !.buf = Tail(@)]
          /\ gpc' = gpc
     ELSE /\ err' = gval
          /\ serverErr' = serverErr
          /\ gpc' = "exit"
  /\ branch' = "err"
  /\ availAtSelect' = TRUE
  /\ pc' = "return"
  /\ UNCHANGED <<args, fn, ctxDone, certFile, keyFile, ret, gval, stopCtx,
                 srvShutdown, elapsed, stopRet, acceptLog, shutdownLog,
                 firedAtAcceptRet, returns>>
  /\ UNCHANGED several

\* err = s.Shutdown(ctx): Shutdown has returned.
ServeTLS_shutdownRet ==
  /\ pc = "shutdown"
  /\ stopRet # None
  /\ err' = stopRet
  /\ pc' = "return"
  /\ UNCHANGED <<args, fn, ctxDone, certFile, keyFile, ret, serverErr, gpc,
                 gval, stopCtx, srvShutdown, elapsed, stopRet, acceptLog,
                 shutdownLog, branch, availAtSelect, firedAtAcceptRet, returns>>
  /\ UNCHANGED several

\* return err, running the deferred cancel().
ServeTLS_return ==
  /\ pc = "return"
  /\ ret' = err
  /\ stopCtx' = IF stopCtx.state = "live"
                THEN [stopCtx EXCEPT !.state = "released"] ELSE stopCtx
  /\ returns' = returns + 1
  /\ pc' = "done"
  /\ UNCHANGED <<args, fn, ctxDone, certFile, keyFile, err, serverErr, gpc,
                 gval, srvShutdown, elapsed, stopRet, acceptLog, shutdownLog,
                 branch, availAtSelect, firedAtAcceptRet>>
  /\ UNCHANGED several

\* The steps of ServeTLS's own goroutine, and of the goroutine it starts.
ServeTLS_runner ==
  \/ ServeTLS_make
  \/ ServeTLS_go
  \/ ServeTLS_selectDone
  \/ ServeTLS_selectErr
  \/ ServeTLS_shutdownRet
  \/ ServeTLS_return

ServeTLS_goroutine ==
  \/ ServeTLS_accept
  \/ ServeTLS_send

\* The body of ServeTLS and of its goroutine run when ServeTLS is the function called.
ServeTLS ==
  \/ fn = "ServeTLS" /\ ServeTLS_make
  \/ fn = "ServeTLS" /\ ServeTLS_go
  \/ fn = "ServeTLS" /\ ServeTLS_accept
  \/ fn = "ServeTLS" /\ ServeTLS_send
  \/ fn = "ServeTLS" /\ ServeTLS_selectDone
  \/ fn = "ServeTLS" /\ ServeTLS_selectErr
  \/ fn = "ServeTLS" /\ ServeTLS_shutdownRet
  \/ fn = "ServeTLS" /\ ServeTLS_return

\* ---- the server s (net/http) ---------------------------------------------
\* The accept call (ListenAndServe, ListenAndServeTLS, Serve, ServeTLS) stops
\* by itself with a failure: the bind fails, the certificate does not load,
\* the listener fails.
Accept_fail ==
  /\ gpc = "accepting"
  /\ \E e \in Failures : gval' = e
  /\ firedAtAcceptRet' = ctxDone
  /\ gpc' = "send"
  /\ UNCHANGED <<args, fn, ctxDone, certFile, keyFile, pc, err, ret, serverErr,
                 stopCtx, srvShutdown, elapsed, stopRet, acceptLog,
                 shutdownLog, branch, availAtSelect, returns>>
  /\ UNCHANGED several

\* The accept call returns http.ErrServerClosed: s is shutting down.
Accept_closed ==
  /\ gpc = "accepting"
  /\ srvShutdown
  /\ gval' = ErrServerClosed
  /\ firedAtAcceptRet' = ctxDone
  /\ gpc' = "send"
  /\ UNCHANGED <<args, fn, ctxDone, certFile, keyFile, pc, err, ret, serverErr,
                 stopCtx, srvShutdown, elapsed, stopRet, acceptLog,
                 shutdownLog, branch, availAtSelect, returns>>
  /\ UNCHANGED several

\* Time passes inside s.Shutdown(ctx), up to ctx's deadline.
Shutdown_tick ==
  /\ pc = "shutdown" /\ stopRet = None
  /\ elapsed < stopCtx.d
  /\ elapsed' = elapsed + 1
  /\ UNCHANGED <<args, fn, ctxDone, certFile, keyFile, pc, err, ret, serverErr,
                 gpc, gval, stopCtx, srvShutdown, stopRet, acceptLog,
                 shutdownLog, branch, availAtSelect, firedAtAcceptRet, returns>>
  /\ UNCHANGED several

\* s.Shutdown(ctx) finds every connection idle and returns nil.
Shutdown_idle ==
  /\ pc = "shutdown" /\ stopRet = None
  /\ stopRet' = Nil
  /\ UNCHANGED <<args, fn, ctxDone, certFile, keyFile, pc, err, ret, serverErr,
                 gpc, gval, stopCtx, srvShutdown, elapsed, acceptLog,
                 shutdownLog, branch, availAtSelect, firedAtAcceptRet, returns>>
  /\ UNCHANGED several

\* ctx's deadline passes inside s.Shutdown(ctx), which returns ctx.Err().
Shutdown_deadline ==
  /\ pc = "shutdown" /\ stopRet = None
  /\ elapsed >= stopCtx.d
  /\ stopRet' = DeadlineExceeded
  /\ UNCHANGED <<args, fn, ctxDone, certFile, keyFile, pc, err, ret, serverErr,
                 gpc, gval, stopCtx, srvShutdown, elapsed, acceptLog,
                 shutdownLog, branch, availAtSelect, firedAtAcceptRet, returns>>
  /\ UNCHANGED several

Accept == Accept_fail \/ Accept_closed
Shutdown == Shutdown_tick \/ Shutdown_idle \/ Shutdown_deadline

\* ---- the specification ----------------------------------------------------
Next ==
  \/ Cancel
  \/ Run
  \/ Serve
  \/ RunTLS
  \/ ServeTLS
  \/ Accept
  \/ Shutdown

Spec == Init /\ [][Next]_vars

\* The Go scheduler runs every runnable goroutine, and s.Shutdown returns by
\* the deadline of its context.  Nothing makes the accept call return.
Runner ==
  \/ Run
  \/ Serve
  \/ fn = "RunTLS" /\ RunTLS_runner
  \/ fn = "ServeTLS" /\ ServeTLS_runner

Goroutine ==
  \/ fn = "RunTLS" /\ RunTLS_goroutine
  \/ fn = "ServeTLS" /\ ServeTLS_goroutine

LiveSpec ==
  /\ Init /\ [][Next]_vars
  /\ WF_vars(Runner)
  /\ WF_vars(Goroutine)
  /\ WF_vars(Shutdown)

\* ---- several invocations ---------------------------------------------------
\* Invocations of RunTLS / ServeTLS running side by side or one after the
\* other, each with its own ctx and server.  Channels live in heap, in the
\* order they were made; an invocation's local variable serverErr is the
\* place of its channel in heap (0 before make), and the goroutine's closure
\* refers to that same variable.  A value in a channel carries, besides the
\* error, the invocation whose goroutine sent it (history).
Invocations == 1..NumInvocations

NewCall ==
  [pc |-> "make", gpc |-> "none", ctxDone |-> FALSE, shut |-> FALSE,
   serverErr |-> 0, err |-> Nil, ret |-> None, gval |-> None,
   goroutines |-> 0, accepts |-> 0, sends |-> 0, recvs |-> 0, from |-> {}]

\* The same invocation is not modelled twice: the single invocation stands
\* still while several run.
SeveralInit ==
  /\ src \in {SrcOld, SrcNew}
  /\ entry = "RunTLS" /\ fn = "RunTLS"
  /\ ctxDone = FALSE /\ firedAtCall = FALSE
  /\ l = NoListener /\ timeout = 0
  /\ certFile = "" /\ keyFile = ""
  /\ pc = "make" /\ err = Nil /\ ret = None
  /\ serverErr = NoChan /\ gpc = "none" /\ gval = None
  /\ stopCtx = NoCtx /\ srvShutdown = FALSE /\ elapsed = 0 /\ stopRet = None
  /\ acceptLog = <<>> /\ shutdownLog = <<>>
  /\ branch = "none" /\ availAtSelect = FALSE /\ firedAtAcceptRet = FALSE
  /\ returns = 0
  /\ heap = <<>>
  /\ calls = [i \in Invocations |-> NewCall]

\* The owner of invocation i's ctx cancels it.
Call_cancel(i) ==
  /\ ~calls[i].ctxDone
  /\ calls' = [calls EXCEPT ![i].ctxDone = TRUE]
  /\ UNCHANGED <<heap, single>>

\* A faulty variant of Call_make: serverErr is one channel of the package,
\* made by the first invocation and used by all.
M17_Call_make(i) ==
  /\ calls[i].pc = "make"
  /\ heap' = IF heap = <<>>
             THEN <<[cap |-> IF src = SrcOld THEN UnbufferedCap
                             ELSE BufferedCap,
                     buf |-> <<>>]>>
             ELSE heap
  /\ calls' = [calls EXCEPT ![i].serverErr = 1, ![i].pc = "go"]
  /\ UNCHANGED single

\* serverErr := make(chan error) (src/serverctx.go), make(chan error, 1)
\* (part_000): a new channel.
Call_make(i) ==
  /\ calls[i].pc = "make"
  /\ heap' = Append(heap, [cap |-> IF src = SrcOld THEN UnbufferedCap
                                   ELSE BufferedCap,
                           buf |-> <<>>])
  /\ calls' = [calls EXCEPT ![i].serverErr = Len(heap'), ![i].pc = "go"]
  /\ UNCHANGED single

\* go func() { ... }() ; var err error
Call_go(i) ==
  /\ calls[i].pc = "go"
  /\ calls' = [calls EXCEPT ![i].gpc = "spawned",
                            ![i].goroutines = @ + 1,
                            ![i].err = Nil,
                            ![i].pc = "select"]
  /\ UNCHANGED <<heap, single>>

\* The goroutine makes the accept call.
Call_accept(i) ==
  /\ calls[i].gpc = "spawned"
  /\ calls' = [calls EXCEPT ![i].gpc = "accepting", ![i].accepts = @ + 1]
  /\ UNCHANGED <<heap, single>>

\* The accept call returns: a failure (the port is in use), or
\* http.ErrServerClosed when the server is shutting down.
Call_acceptRet(i) ==
  /\ calls[i].gpc = "accepting"
  /\ \E e \in {AddrInUse, ErrServerClosed} :
       /\ e = ErrServerClosed => calls[i].shut
       /\ calls' = [calls EXCEPT ![i].gval = e, ![i].gpc = "send"]
  /\ UNCHANGED <<heap, single>>

\* The goroutine: serverErr <- (the accept call's result), into the buffer.
Call_send(i) ==
  /\ calls[i].gpc = "send"
  /\ calls[i].serverErr # 0
  /\ Len(heap[calls[i].serverErr].buf) < heap[calls[i].serverErr].cap
  /\ heap' = [heap EXCEPT ![calls[i].serverErr].buf =
                Append(@, [by |-> i, v |-> calls[i].gval])]
  /\ calls' = [calls EXCEPT ![i].gpc = "exit", ![i].sends = @ + 1]
  /\ UNCHANGED single

\* case <-ctx.Done(): s.Shutdown(ctx) is called.
Call_selectDone(i) ==
  /\ calls[i].pc = "select"
  /\ calls[i].ctxDone
  /\ calls' = [calls EXCEPT ![i].shut = TRUE, ![i].pc = "shutdown"]
  /\ UNCHANGED <<heap, single>>

\* case err = <-serverErr: a value of the buffer.
Call_selectErr(i) ==
  /\ calls[i].pc = "select"
  /\ Len(heap[calls[i].serverErr].buf) > 0
  /\ calls' = [calls EXCEPT
                 ![i].err = Head(heap[calls[i].serverErr].buf).v,
                 ![i].from = @ \cup {Head(heap[calls[i].serverErr].buf).by},
                 ![i].recvs = @ + 1,
                 ![i].pc = "return"]
  /\ heap' = [heap EXCEPT ![calls[i].serverErr].buf = Tail(@)]
  /\ UNCHANGED single

\* case err = <-serverErr on an unbuffered channel: the value of a goroutine
\* blocked in its send on that channel, whose send completes.
Call_selectErrSync(i) ==
  /\ calls[i].pc = "select"
  /\ heap[calls[i].serverErr].cap = 0
  /\ \E j \in Invocations :
       /\ calls[j].gpc = "send"
       /\ calls[j].serverErr = calls[i].serverErr
       /\ calls' = [k \in Invocations |->
            LET c == IF k = j
                     THEN [calls[k] EXCEPT !.gpc = "exit", !.sends = @ + 1]
                     ELSE calls[k]
            IN  IF k = i
                THEN [c EXCEPT !.err = calls[j].gval,
                               !.from = @ \cup {j},
                               !.recvs = @ + 1,
                               !.pc = "return"]
                ELSE c]
  /\ UNCHANGED <<heap, single>>

\* err = s.Shutdown(ctx): Shutdown returns nil or its context's error.
Call_shutdownRet(i) ==
  /\ calls[i].pc = "shutdown"
  /\ \E r \in {Nil, DeadlineExceeded} :
       calls' = [calls EXCEPT ![i].err = r, ![i].pc = "return"]
  /\ UNCHANGED <<heap, single>>

\* return err
Call_return(i) ==
  /\ calls[i].pc = "return"
  /\ calls' = [calls EXCEPT ![i].ret = calls[i].err, ![i].pc = "done"]
  /\ UNCHANGED <<heap, single>>

SeveralNext ==
  \E i \in Invocations :
    \/ Call_cancel(i)
    \/ Call_make(i)
    \/ Call_go(i)
    \/ Call_accept(i)
    \/ Call_acceptRet(i)
    \/ Call_send(i)
    \/ Call_selectDone(i)
    \/ Call_selectErr(i)
    \/ Call_selectErrSync(i)
    \/ Call_shutdownRet(i)
    \/ Call_return(i)

SeveralSpec == SeveralInit /\ [][SeveralNext]_vars

\* ---- what the claims speak of ---------------------------------------------
\* The accept call has returned.
AcceptEnded == gpc \in {"send", "exit"}
\* The runner has returned to its caller.
Returned == pc = "done"
\* The select took case <-ctx.Done().
StopPath == branch = "ctx"
\* The select took case err = <-serverErr.
AcceptPath == branch = "err"

\* ---- C1 ---------------------------------------------------------------------
\* C1 (race correctness): if the accept call ends with a failure before ctx is
\* done, Shutdown is never called and the value returned is that failure.
C1_RaceCorrectness ==
  (AcceptEnded /\ gval \in Failures /\ ~firedAtAcceptRet)
    => /\ shutdownLog = <<>>
       /\ Returned => ret = gval

\* ---- C2 ---------------------------------------------------------------------
\* ctx was done before the accept call ended (or the call has not ended).
FiredBeforeAcceptEnd == ctxDone /\ (~AcceptEnded \/ firedAtAcceptRet)

\* C2 as stated (graceful path): if ctx is done before the accept call ends,
\* the value returned is the result of Shutdown.
C2_GracefulPath ==
  (Returned /\ FiredBeforeAcceptEnd) => (StopPath /\ ret = stopRet)

\* C2 as amended: if ctx is done before the accept call ends and no value can
\* be received from serverErr when the select is resolved, Shutdown is called
\* once and the value returned is its result, whatever the accept call returns
\* afterwards.
C2_GracefulPathAmended ==
  (Returned /\ FiredBeforeAcceptEnd /\ ~availAtSelect)
    => /\ StopPath
       /\ Len(shutdownLog) = 1
       /\ stopRet # None
       /\ ret = stopRet

\* The stop path was taken with the accept call still running; the call then
\* failed, and the value returned is Shutdown's.
C2_Witness ==
  /\ Returned /\ FiredBeforeAcceptEnd /\ ~availAtSelect
  /\ AcceptEnded /\ gval \in Failures
  /\ ret = stopRet /\ ret # gval

\* ---- C3 ---------------------------------------------------------------------
\* C3 as stated (no missed signal): if ctx is already done at invocation, the
\* runner returns through the stop path: Shutdown is called and its result is
\* the value returned.
C3_NoMissedSignal ==
  (firedAtCall /\ Returned)
    => (StopPath /\ Len(shutdownLog) = 1 /\ ret = stopRet)

\* C3 as amended: if ctx is already done at invocation the runner returns
\* (it never hangs), and it returns through the stop path with Shutdown's
\* result unless a value could be received from serverErr when the select was
\* resolved.
C3_NoMissedSignalAmended ==
  /\ (firedAtCall ~> Returned)
  /\ [](firedAtCall /\ pc = "select" => ENABLED Runner)
  /\ []((firedAtCall /\ Returned /\ ~availAtSelect)
          => (StopPath /\ Len(shutdownLog) = 1 /\ ret = stopRet))

\* ctx was done at invocation, the accept call never returned, and the runner
\* has returned Shutdown's result.
C3_Witness ==
  /\ firedAtCall /\ Returned /\ StopPath
  /\ gpc = "accepting"
  /\ ret = stopRet

\* ---- C4 ---------------------------------------------------------------------
\* C4 (single outcome): at most one value is returned; it is the accept
\* call's result (and then Shutdown was not called) or Shutdown's result, and
\* once returned it never changes, whatever the other side produces later.
C4_SingleOutcome ==
  /\ [](/\ returns <= 1
        /\ (returns = 1) = Returned
        /\ ~Returned => ret = None
        /\ Returned =>
             \/ AcceptPath /\ ret = gval /\ shutdownLog = <<>> /\ stopRet = None
             \/ StopPath /\ ret = stopRet /\ stopRet # None)
  /\ [][Returned => (ret' = ret /\ returns' = returns /\ Returned')]_vars

\* The runner returned Shutdown's result and the accept call's different
\* result was produced afterwards.
C4_Witness ==
  /\ Returned /\ StopPath
  /\ gpc = "exit" /\ gval # ret
  /\ returns = 1

\* ---- C5 ---------------------------------------------------------------------
\* C5 (bounded shutdown): once ctx is done the runner returns; on the stop
\* path it waits for Shutdown only (once Shutdown has returned the runner can
\* step, whatever the accept call does), and Shutdown has run for no longer
\* than timeout.
C5_BoundedShutdown ==
  /\ (ctxDone ~> Returned)
  /\ [](pc = "shutdown" /\ stopRet # None => ENABLED Runner)
  /\ [](StopPath => elapsed <= timeout)

\* The stop path ran to its deadline and returned with the accept call still
\* running.
C5_Witness ==
  /\ Returned /\ StopPath
  /\ gpc = "accepting"
  /\ timeout > 0 /\ elapsed = timeout
  /\ ret = DeadlineExceeded

\* ---- C6 ---------------------------------------------------------------------
\* C6 (verbatim propagation): the value returned is the value the chosen call
\* produced: the accept call's result as it is (http.ErrServerClosed stays
\* http.ErrServerClosed, never nil), or Shutdown's nil or deadline error.
C6_VerbatimPropagation ==
  /\ (pc \in {"return", "done"} /\ AcceptPath)
       => (err = gval /\ err \in Failures \cup {ErrServerClosed})
  /\ (pc \in {"return", "done"} /\ StopPath)
       => (err = stopRet /\ err \in {Nil, DeadlineExceeded})
  /\ Returned => ret = err

\* The accept call returned http.ErrServerClosed, won the race, and that value
\* was returned.
C6_Witness ==
  /\ Returned /\ AcceptPath
  /\ gval = ErrServerClosed
  /\ ret = ErrServerClosed

\* ---- C7 ---------------------------------------------------------------------
\* C7 (no error is lost): on the stop path, the accept call's result, which
\* is not returned, is always http.ErrServerClosed.
C7_NoErrorLost ==
  (StopPath /\ AcceptEnded) => gval = ErrServerClosed

\* ---- C8 ---------------------------------------------------------------------
TLSMethods == {"ListenAndServeTLS", "ServeTLS"}
PlainMethods == {"ListenAndServe", "Serve"}

\* C8 (credential gating): exactly one accept call is made, the TLS one if and
\* only if certFile and keyFile are both non-empty and the plaintext one
\* otherwise; the goroutine produces no value that is not that call's result.
C8_CredentialGating ==
  /\ Len(acceptLog) <= 1
  /\ (gpc \in {"accepting", "send", "exit"}) = (Len(acceptLog) = 1)
  /\ \A i \in DOMAIN acceptLog :
       /\ acceptLog[i].method \in TLSMethods \cup PlainMethods
       /\ (acceptLog[i].method \in TLSMethods)
            = (certFile # "" /\ keyFile # "")
       /\ acceptLog[i].method \in TLSMethods
            => (acceptLog[i].cert = certFile /\ acceptLog[i].key = keyFile)
  /\ gpc = "accepting" => gval = None

\* A partial pair: the plaintext call was made.
C8_Witness ==
  /\ certFile = "cert.pem" /\ keyFile = ""
  /\ Len(acceptLog) = 1
  /\ acceptLog[1].method \in PlainMethods
  /\ AcceptEnded

\* ---- C9 ---------------------------------------------------------------------
\* The steps of each body that the race and the stop path are made of.
RunTLS_race ==
  \/ RunTLS_make
  \/ RunTLS_go
  \/ RunTLS_send
  \/ RunTLS_selectDone
  \/ RunTLS_selectErr
  \/ RunTLS_shutdownRet
  \/ RunTLS_return

ServeTLS_race ==
  \/ ServeTLS_make
  \/ ServeTLS_go
  \/ ServeTLS_send
  \/ ServeTLS_selectDone
  \/ ServeTLS_selectErr
  \/ ServeTLS_shutdownRet
  \/ ServeTLS_return

C10_ProducerNeverBlocks ==
  (StopPath /\ gpc = "send") => CanSend(serverErr)

\* ---- C11 --------------------------------------------------------------------
\* C11 (tie-break): when the select is resolved with ctx done and a value
\* receivable from serverErr, case err = <-serverErr is the one taken: the
\* stop path is never taken with a value receivable.
C11_TieBreak ==
  StopPath => ~availAtSelect

\* ---- C12 --------------------------------------------------------------------
\* The goroutine is inside the accept call, or past it.
AcceptStarted == gpc \in {"accepting", "send", "exit"}

\* C12 as stated (start before wait): the accept call has begun before the
\* runner waits in the select, and Shutdown is never called before it.
C12_StartBeforeWait ==
  /\ pc \in {"select", "shutdown", "return", "done"} => AcceptStarted
  /\ shutdownLog # <<>> => AcceptStarted

\* C12 as amended: the goroutine that makes the accept call has been started
\* by the `go` statement before the runner waits in the select and before
\* Shutdown is called; the accept call itself may begin later.
C12_StartBeforeWaitAmended ==
  /\ pc \in {"select", "shutdown", "return", "done"} => gpc # "none"
  /\ shutdownLog # <<>> => gpc # "none"
  /\ AcceptStarted => gpc # "none" /\ pc \notin {"call", "make", "go"}

\* Shutdown has been called and has returned while the goroutine has not yet
\* made the accept call.
C12_Witness ==
  /\ shutdownLog # <<>>
  /\ stopRet # None
  /\ gpc = "spawned"
  /\ acceptLog = <<>>

\* ---- C13 --------------------------------------------------------------------
\* C13 (path exclusivity, cooperative cancellation): one select case is taken
\* per invocation and stays taken; Shutdown is called at most once, only in
\* case <-ctx.Done() and with ctx done; nothing else of the runner changes the
\* server, and on the accept-result path the server is left as it was.
C13_PathExclusivity ==
  /\ [](/\ Len(shutdownLog) <= 1
        /\ shutdownLog # <<>> => (StopPath /\ ctxDone)
        /\ StopPath => Len(shutdownLog) = 1
        /\ AcceptPath => (shutdownLog = <<>> /\ stopRet = None)
        /\ (pc \in {"shutdown", "return", "done"}) = (branch # "none"))
  /\ [][branch # "none" => branch' = branch]_vars
  /\ [][srvShutdown' # srvShutdown
          => /\ pc = "select" /\ ctxDone /\ pc' = "shutdown"
             /\ srvShutdown'
             /\ Len(shutdownLog') = Len(shutdownLog) + 1]_vars

\* The accept-result path ran to its return with ctx done as well: the server
\* was not shut down.
C13_Witness ==
  /\ Returned /\ AcceptPath /\ ctxDone
  /\ ~srvShutdown
  /\ shutdownLog = <<>>

\* ---- C14 --------------------------------------------------------------------
\* C14 (stop deadline derivation): the context given to Shutdown is made when
\* the stop path is entered, not before; it is a child of
\* context.Background(), not of ctx, its timeout is the parameter timeout
\* exactly (0 included), and it is live when Shutdown is called.
C14_StopDeadline ==
  /\ pc \in {"call", "make", "go", "select"} => stopCtx = NoCtx
  /\ \A i \in DOMAIN shutdownLog :
       shutdownLog[i] =
         [state |-> "live", parent |-> "Background", d |-> timeout]
  /\ pc = "shutdown" =>
       (stopCtx = shutdownLog[Len(shutdownLog)] /\ elapsed <= stopCtx.d)

\* A timeout of 0: Shutdown was called with a context of timeout 0 derived
\* from context.Background(), and has returned.
C14_Witness ==
  /\ timeout = 0
  /\ Returned /\ StopPath
  /\ shutdownLog = <<[state |-> "live", parent |-> "Background", d |-> 0]>>

\* ---- C15 --------------------------------------------------------------------
\* C15 (timer release): when the runner has returned no context made by
\* context.WithTimeout is live: on the stop path it has been released by the
\* deferred cancel(), whatever Shutdown returned, and on the accept-result
\* path none was ever made.
C15_TimerRelease ==
  /\ Returned => stopCtx.state # "live"
  /\ (Returned /\ StopPath) => stopCtx.state = "released"
  /\ AcceptPath => stopCtx = NoCtx
  /\ stopCtx.state = "live" => pc \in {"shutdown", "return"}

\* Shutdown ran into its deadline and the context has been released at the
\* return.
C15_Witness ==
  /\ Returned /\ StopPath
  /\ ret = DeadlineExceeded
  /\ stopCtx.state = "released"

\* ---- C16 --------------------------------------------------------------------
\* C16 as stated (handle not retained): when the runner has returned, the
\* goroutine it started has finished.
C16_HandleNotRetained ==
  Returned => gpc = "exit"

\* C16 as amended: when the runner has returned through the accept-result
\* path, the goroutine it started has left the accept call and handed its
\* result over, and serverErr holds nothing.
C16_HandleNotRetainedAmended ==
  (Returned /\ AcceptPath) => (gpc = "exit" /\ serverErr.buf = <<>>)

\* The accept-result path has returned a failure; the goroutine has finished.
C16_Witness ==
  /\ Returned /\ AcceptPath
  /\ gpc = "exit"
  /\ ret \in Failures

\* ---- C18 --------------------------------------------------------------------
\* C18 (no spurious return): the runner leaves the select only with ctx done
\* or with the accept call's result; while ctx is not done and the accept
\* call has not returned, the runner stays in the select, no step of its is
\* enabled, and Shutdown is not called.
C18_NoSpuriousReturn ==
  /\ pc \in {"shutdown", "return", "done"} => (ctxDone \/ AcceptEnded)
  /\ (~ctxDone /\ ~AcceptEnded /\ pc = "select") => ~ENABLED Runner
  /\ (~ctxDone /\ ~AcceptEnded) => (shutdownLog = <<>> /\ ret = None)

\* The runner has returned with ctx never done: the accept call's result is
\* what ended the select.
C18_Witness ==
  /\ Returned /\ ~ctxDone
  /\ AcceptEnded /\ AcceptPath

\* ---- C17 --------------------------------------------------------------------
\* The invocations whose goroutine refers to channel c, and those whose select
\* receives from it.
Users(c) == {i \in Invocations : calls[i].serverErr = c}

\* C17 (one-shot start, single capture): each invocation starts one goroutine,
\* which makes one accept call and sends one value, never more; a channel
\* never holds more than one value; each channel has one producer and one
\* consumer, those of the invocation that made it, and an invocation only ever
\* receives the value its own goroutine sent.
C17_OneShotCapture ==
  /\ \A i \in Invocations :
       /\ calls[i].goroutines <= 1
       /\ (calls[i].goroutines = 1) = (calls[i].gpc # "none")
       /\ (calls[i].gpc # "none")
            = (calls[i].pc \in {"select", "shutdown", "return", "done"})
       /\ calls[i].accepts <= 1
       /\ (calls[i].accepts = 1)
            = (calls[i].gpc \in {"accepting", "send", "exit"})
       /\ calls[i].sends <= 1
       /\ (calls[i].sends = 1) = (calls[i].gpc = "exit")
       /\ calls[i].recvs <= 1
       /\ calls[i].recvs = 1 => calls[i].sends = 1
       /\ calls[i].from \subseteq {i}
       /\ calls[i].recvs = 1 => calls[i].err = calls[i].gval
  /\ \A c \in DOMAIN heap :
       /\ Len(heap[c].buf) <= 1
       /\ Cardinality(Users(c)) = 1
       /\ \A n \in DOMAIN heap[c].buf : heap[c].buf[n].by \in Users(c)

\* Two invocations have both returned the result of their own accept call,
\* each received from its own channel.
C17_Witness ==
  /\ \A i \in Invocations :
       /\ calls[i].pc = "done"
       /\ calls[i].from = {i}
       /\ calls[i].ret = calls[i].gval
  /\ calls[1].serverErr # calls[2].serverErr
  /\ calls[1].ret = AddrInUse

====
